---------------------------- MODULE Spec2Model ----------------------------
(***************************************************************************)
(* cuda4py cuRAND binding (src/src/cuda4py/curand/_curand.py).             *)
(*                                                                         *)
(* Two state machines over one set of variables:                           *)
(*   SpecLoader  threads calling initialize(backends), one step per        *)
(*               statement group, so that every interleaving of the        *)
(*               check / lock / check / parse / dlopen / merge sequence is *)
(*               explored;                                                 *)
(*   SpecGen     the life cycle of CURAND objects (constructor, _release,  *)
(*               __del__) against one device context and the native        *)
(*               library.                                                  *)
(* Python strings are TLA+ strings; Python None is the string "None" for   *)
(* lib and ffi and the integer NoHandle for a generator handle.            *)
(***************************************************************************)
EXTENDS Integers, Sequences, FiniteSets, TLC

(* ------------------------------ bounds --------------------------------- *)

\* threads that call initialize
NThreads == 2

\* CURAND objects constructed
NGens == 2

\* the native library hands out the handles 0 .. MaxHandle
MaxHandle == 1


(* ------------------------- program constants --------------------------- *)

CURAND_STATUS_SUCCESS == 0
CURAND_STATUS_VERSION_MISMATCH == 100
CURAND_STATUS_NOT_INITIALIZED == 101
CURAND_STATUS_ALLOCATION_FAILED == 102
CURAND_STATUS_TYPE_ERROR == 103
CURAND_STATUS_OUT_OF_RANGE == 104
CURAND_STATUS_LENGTH_NOT_MULTIPLE == 105
CURAND_STATUS_DOUBLE_PRECISION_REQUIRED == 106
CURAND_STATUS_LAUNCH_FAILURE == 201
CURAND_STATUS_PREEXISTING_FAILURE == 202
CURAND_STATUS_INITIALIZATION_FAILED == 203
CURAND_STATUS_ARCH_MISMATCH == 204
CURAND_STATUS_INTERNAL_ERROR == 999

\* ERRORS: the cuRAND error descriptions
ERRORS ==
    (CURAND_STATUS_VERSION_MISMATCH :> "CURAND_STATUS_VERSION_MISMATCH") @@
    (CURAND_STATUS_NOT_INITIALIZED :> "CURAND_STATUS_NOT_INITIALIZED") @@
    (CURAND_STATUS_ALLOCATION_FAILED :> "CURAND_STATUS_ALLOCATION_FAILED") @@
    (CURAND_STATUS_TYPE_ERROR :> "CURAND_STATUS_TYPE_ERROR") @@
    (CURAND_STATUS_OUT_OF_RANGE :> "CURAND_STATUS_OUT_OF_RANGE") @@
    (CURAND_STATUS_LENGTH_NOT_MULTIPLE :> "CURAND_STATUS_LENGTH_NOT_MULTIPLE") @@
    (CURAND_STATUS_DOUBLE_PRECISION_REQUIRED :>
        "CURAND_STATUS_DOUBLE_PRECISION_REQUIRED") @@
    (CURAND_STATUS_LAUNCH_FAILURE :> "CURAND_STATUS_LAUNCH_FAILURE") @@
    (CURAND_STATUS_PREEXISTING_FAILURE :> "CURAND_STATUS_PREEXISTING_FAILURE") @@
    (CURAND_STATUS_INITIALIZATION_FAILED :>
        "CURAND_STATUS_INITIALIZATION_FAILED") @@
    (CURAND_STATUS_ARCH_MISMATCH :> "CURAND_STATUS_ARCH_MISMATCH") @@
    (CURAND_STATUS_INTERNAL_ERROR :> "CURAND_STATUS_INTERNAL_ERROR")

\* the order in which ERRORS.items() yields the codes (the literal's order)
ERRORS_items ==
    << CURAND_STATUS_VERSION_MISMATCH, CURAND_STATUS_NOT_INITIALIZED,
       CURAND_STATUS_ALLOCATION_FAILED, CURAND_STATUS_TYPE_ERROR,
       CURAND_STATUS_OUT_OF_RANGE, CURAND_STATUS_LENGTH_NOT_MULTIPLE,
       CURAND_STATUS_DOUBLE_PRECISION_REQUIRED, CURAND_STATUS_LAUNCH_FAILURE,
       CURAND_STATUS_PREEXISTING_FAILURE, CURAND_STATUS_INITIALIZATION_FAILED,
       CURAND_STATUS_ARCH_MISMATCH, CURAND_STATUS_INTERNAL_ERROR >>

\* curandRngType
CURAND_RNG_TEST == 0
CURAND_RNG_PSEUDO_DEFAULT == 100
CURAND_RNG_PSEUDO_XORWOW == 101
CURAND_RNG_PSEUDO_MRG32K3A == 121
CURAND_RNG_PSEUDO_MTGP32 == 141
CURAND_RNG_PSEUDO_MT19937 == 142
CURAND_RNG_PSEUDO_PHILOX4_32_10 == 161
CURAND_RNG_QUASI_DEFAULT == 200
CURAND_RNG_QUASI_SOBOL32 == 201
CURAND_RNG_QUASI_SCRAMBLED_SOBOL32 == 202
CURAND_RNG_QUASI_SOBOL64 == 203
CURAND_RNG_QUASI_SCRAMBLED_SOBOL64 == 204

\* the default candidate list of initialize
DefaultBackends == << "libcurand.so", "curand64_65.dll" >>

(* ------------------------------ helpers -------------------------------- *)

None == "None"

Threads == 1 .. NThreads

LibNames == { DefaultBackends[n] : n \in 1 .. Len(DefaultBackends) }

Gens == 1 .. NGens

Handles == 0 .. MaxHandle

\* self._handle = None
NoHandle == -1

\* self._handle was never assigned: reading it raises AttributeError
NoAttr == -2

\* context.handle of a context that has not been released
CtxHandle == 1

\* the statuses the native calls are made to return
StatusInputs ==
    { CURAND_STATUS_SUCCESS, CURAND_STATUS_ALLOCATION_FAILED }

\* the rng_type arguments the constructor is called with: the default
RngInputs == { CURAND_RNG_PSEUDO_DEFAULT }

\* how a constructor ended: not run yet / normally / with an exception
NotConstructed == [type |-> "none", op |-> "", code |-> 0, msg |-> ""]

Constructed == [type |-> "ok", op |-> "", code |-> 0, msg |-> ""]

LoadError ==
    [type |-> "OSError", op |-> "", code |-> 0,
     msg |-> "Could not load curand library"]

\* CU.error(method_name, code): the exception carrying the operation's name,
\* the status code and its description from the shared table
CU_error(table, op, code) ==
    [type |-> "CU.error", op |-> op, code |-> code,
     msg |-> IF code \in DOMAIN table THEN table[code] ELSE ""]

\* one call made by a CURAND object, to the context or to the library
Event(ev, arg, out, status, active) ==
    [ev |-> ev, arg |-> arg, out |-> out, status |-> status, active |-> active]

\* with context: entering makes the context the active one
context_enter(active) == TRUE

\* the candidate lists a caller may pass: every list of distinct library names,
\* the empty list included
BackendLists ==
    { b \in UNION { [1 .. n -> LibNames] : n \in 0 .. Cardinality(LibNames) } :
          \A m, n \in DOMAIN b : m # n => b[m] # b[n] }

\* Python's  s in t  on strings
Contains(s, t) ==
    \E p \in 1 .. (Len(t) - Len(s) + 1) : SubSeq(t, p, p + Len(s) - 1) = s

\* one iteration of the merge loop: the body of  for code, msg in ERRORS.items()
MergeOne(table, code) ==
    LET msg == ERRORS[code]
        s == " | " \o msg
    IN  IF code \in DOMAIN table
        THEN IF ~Contains(s, table[code])
             THEN [table EXCEPT ![code] = table[code] \o s]
             ELSE table
        ELSE (code :> msg) @@ table

(* --------------------- the shared table before load -------------------- *)

\* a description another subsystem put into CU.ERRORS
OtherText == "CUDA_ERROR"

\* a status code no cuRAND description exists for
OtherCode == 1

\* the texts CU.ERRORS may hold for a cuRAND code before cuRAND is loaded
PriorTexts(c) ==
    { OtherText,
      ERRORS[c],
      OtherText \o " | " \o ERRORS[c],
      ERRORS[c] \o " | " \o OtherText }

\* the codes of CU.ERRORS the model populates before the load
PriorCodes == { CURAND_STATUS_VERSION_MISMATCH, CURAND_STATUS_INTERNAL_ERROR }

\* the contents of CU.ERRORS before the load
PriorTables ==
    { (OtherCode :> OtherText) } \cup
    { (c :> x) @@ (OtherCode :> OtherText) :
          <<c, x>> \in { <<c, x>> \in PriorCodes \X UNION { PriorTexts(d) : d \in PriorCodes } :
                            x \in PriorTexts(c) } }

(* ------------------------------ state ---------------------------------- *)

VARIABLES
    lib,          \* module global lib: None or the name of the opened library
    ffi,          \* module global ffi: None or the FFI instance
    CU_ERRORS,    \* CU.ERRORS, the shared error table: code -> description
    prior,        \* CU.ERRORS as it was before any load (history)
    loadable,     \* the library names dlopen can open in this process
    cuffi_ready,  \* cuffi.initialize() has run
    lock,         \* cuffi.lock: 0 when free, else the thread holding it
    pc,           \* per thread: where it is in initialize / _initialize
    backends,     \* per thread: the argument of its call in progress
    i,            \* per thread: loop position (candidate or ERRORS item)
    result,       \* per thread: how its last call ended
    nLoad,        \* how many times dlopen succeeded and lib was assigned
    ctor,         \* per CURAND object: how __init__ ended (type, op, code)
    self_lib,     \* per object: self._lib
    self_handle,  \* per object: self._handle (NoAttr: never assigned)
    deleted,      \* per object: __del__ has run
    raised,       \* per object: what its last _release / __del__ raised
    nRelease,     \* per object: explicit _release calls so far: 0, 1, 2 = more
    trace,        \* per object: the calls it made to the context and the library
    refs,         \* the context's reference tracking: registrations per object
    ctx_handle,   \* context.handle: NoHandle once the context is released
    ctx_active,   \* the caller has entered the context: it is the active one
    native_gens   \* the library's generators: handle -> creating object, 0 if none

loaderVars ==
    << lib, ffi, CU_ERRORS, prior, loadable, cuffi_ready, lock, pc, backends,
       i, result, nLoad >>

genVars ==
    << ctor, self_lib, self_handle, deleted, raised, nRelease, trace, refs,
       ctx_handle, ctx_active, native_gens >>

vars == << loaderVars, genVars >>

(* ------------------------------ initialize ----------------------------- *)

\* no CURAND object constructed yet, the context valid and not entered
InitGen ==
    /\ ctor = [g \in Gens |-> NotConstructed]
    /\ self_lib = [g \in Gens |-> None]
    /\ self_handle = [g \in Gens |-> NoAttr]
    /\ deleted = [g \in Gens |-> FALSE]
    /\ raised = [g \in Gens |-> "none"]
    /\ nRelease = [g \in Gens |-> 0]
    /\ trace = [g \in Gens |-> << >>]
    /\ refs = [g \in Gens |-> 0]
    /\ ctx_handle = CtxHandle
    /\ ctx_active = FALSE
    /\ native_gens = [h \in Handles |-> 0]

InitLoader ==
    /\ InitGen
    /\ lib = None
    /\ ffi = None
    /\ CU_ERRORS \in PriorTables
    /\ prior = CU_ERRORS
    /\ loadable \in SUBSET LibNames
    /\ cuffi_ready = FALSE
    /\ lock = 0
    /\ pc = [t \in Threads |-> "idle"]
    /\ backends = [t \in Threads |-> << >>]
    /\ i = [t \in Threads |-> 0]
    /\ result = [t \in Threads |-> "none"]
    /\ nLoad = 0

\* def initialize(backends): cuffi.initialize()
initialize_enter(t, b) ==
    /\ pc[t] = "idle"
    /\ pc' = [pc EXCEPT ![t] = "check"]
    /\ backends' = [backends EXCEPT ![t] = b]
    /\ result' = [result EXCEPT ![t] = "none"]
    /\ cuffi_ready' = TRUE
    /\ UNCHANGED << lib, ffi, CU_ERRORS, prior, loadable, lock, i, nLoad >>
    /\ UNCHANGED genVars

\* initialize: if lib is not None: return
initialize_check(t) ==
    /\ pc[t] = "check"
    /\ IF lib # None
       THEN /\ pc' = [pc EXCEPT ![t] = "idle"]
            /\ result' = [result EXCEPT ![t] = "ok"]
            /\ backends' = [backends EXCEPT ![t] = << >>]
       ELSE /\ pc' = [pc EXCEPT ![t] = "lock"]
            /\ UNCHANGED << result, backends >>
    /\ UNCHANGED << lib, ffi, CU_ERRORS, prior, loadable, cuffi_ready, lock, i, nLoad >>
    /\ UNCHANGED genVars

\* initialize: with cuffi.lock (entering)
lock_acquire(t) ==
    /\ pc[t] = "lock"
    /\ lock = 0
    /\ lock' = t
    /\ pc' = [pc EXCEPT ![t] = "_initialize"]
    /\ UNCHANGED << lib, ffi, CU_ERRORS, prior, loadable, cuffi_ready, backends,
                    i, result, nLoad >>
    /\ UNCHANGED genVars

\* _initialize without its own test of lib: the load is repeated by a caller that
\* waited for the lock
_initialize_check_missing(t) ==
    /\ pc[t] = "_initialize"
    /\ pc' = [pc EXCEPT ![t] = "parse"]
    /\ UNCHANGED << lib, ffi, CU_ERRORS, prior, loadable, cuffi_ready, lock,
                    backends, i, result, nLoad >>
    /\ UNCHANGED genVars

\* _initialize: if lib is not None: return
_initialize_check(t) ==
    /\ pc[t] = "_initialize"
    /\ pc' = [pc EXCEPT ![t] = IF lib # None THEN "unlock" ELSE "parse"]
    /\ UNCHANGED << lib, ffi, CU_ERRORS, prior, loadable, cuffi_ready, lock,
                    backends, i, result, nLoad >>
    /\ UNCHANGED genVars

\* _initialize: ffi = cffi.FFI(); ffi.cdef(src)
_initialize_parse(t) ==
    /\ pc[t] = "parse"
    /\ ffi' = "FFI"
    /\ i' = [i EXCEPT ![t] = 1]
    /\ pc' = [pc EXCEPT ![t] = "dlopen"]
    /\ UNCHANGED << lib, CU_ERRORS, prior, loadable, cuffi_ready, lock, backends,
                    result, nLoad >>
    /\ UNCHANGED genVars

\* _initialize: one iteration of  for libnme in backends: try dlopen
_initialize_dlopen(t) ==
    /\ pc[t] = "dlopen"
    /\ i[t] <= Len(backends[t])
    /\ IF backends[t][i[t]] \in loadable
       THEN /\ lib' = backends[t][i[t]]
            /\ nLoad' = nLoad + 1
            /\ i' = [i EXCEPT ![t] = 1]
            /\ pc' = [pc EXCEPT ![t] = "merge"]
       ELSE /\ i' = [i EXCEPT ![t] = i[t] + 1]
            /\ UNCHANGED << lib, nLoad, pc >>
    /\ UNCHANGED << ffi, CU_ERRORS, prior, loadable, cuffi_ready, lock, backends,
                    result >>
    /\ UNCHANGED genVars

\* the loop's else branch without  ffi = None
_initialize_notfound_keeps_ffi(t) ==
    /\ pc[t] = "dlopen"
    /\ i[t] > Len(backends[t])
    /\ pc' = [pc EXCEPT ![t] = "raise"]
    /\ UNCHANGED << lib, ffi, CU_ERRORS, prior, loadable, cuffi_ready, lock,
                    backends, i, result, nLoad >>
    /\ UNCHANGED genVars

\* _initialize: the loop's else branch: ffi = None; raise OSError
_initialize_notfound(t) ==
    /\ pc[t] = "dlopen"
    /\ i[t] > Len(backends[t])
    /\ ffi' = None
    /\ pc' = [pc EXCEPT ![t] = "raise"]
    /\ UNCHANGED << lib, CU_ERRORS, prior, loadable, cuffi_ready, lock, backends,
                    i, result, nLoad >>
    /\ UNCHANGED genVars

\* _initialize: one iteration of  for code, msg in ERRORS.items()
_initialize_merge(t) ==
    /\ pc[t] = "merge"
    /\ CU_ERRORS' = MergeOne(CU_ERRORS, ERRORS_items[i[t]])
    /\ i' = [i EXCEPT ![t] = i[t] + 1]
    /\ pc' = [pc EXCEPT ![t] = IF i[t] = Len(ERRORS_items) THEN "unlock" ELSE "merge"]
    /\ UNCHANGED << lib, ffi, prior, loadable, cuffi_ready, lock, backends,
                    result, nLoad >>
    /\ UNCHANGED genVars

\* initialize: leaving  with cuffi.lock, normally or with the OSError
lock_release(t) ==
    /\ pc[t] \in { "unlock", "raise" }
    /\ lock' = 0
    /\ result' = [result EXCEPT ![t] = IF pc[t] = "raise" THEN "OSError" ELSE "ok"]
    /\ pc' = [pc EXCEPT ![t] = "idle"]
    /\ backends' = [backends EXCEPT ![t] = << >>]
    /\ i' = [i EXCEPT ![t] = 0]
    /\ UNCHANGED << lib, ffi, CU_ERRORS, prior, loadable, cuffi_ready,
                    nLoad >>
    /\ UNCHANGED genVars

NextLoader ==
    \/ \E t \in Threads, b \in BackendLists : initialize_enter(t, b)
    \/ \E t \in Threads : initialize_check(t)
    \/ \E t \in Threads : lock_acquire(t)
    \/ \E t \in Threads : _initialize_check(t)
    \/ \E t \in Threads : _initialize_parse(t)
    \/ \E t \in Threads : _initialize_dlopen(t)
    \/ \E t \in Threads : _initialize_notfound(t)
    \/ \E t \in Threads : _initialize_merge(t)
    \/ \E t \in Threads : lock_release(t)

SpecLoader == InitLoader /\ [][NextLoader]_vars

(* ------------------------------- CURAND -------------------------------- *)

\* the first candidate dlopen can open, None when there is none: the outcome of
\* the loop  for libnme in backends  run to its end
FirstLoadable(b) ==
    IF \E n \in 1 .. Len(b) : b[n] \in loadable
    THEN b[CHOOSE n \in 1 .. Len(b) :
               /\ b[n] \in loadable
               /\ \A m \in 1 .. (n - 1) : b[m] \notin loadable]
    ELSE None

RECURSIVE MergeFrom(_, _)
\* the merge loop run from item n to its end
MergeFrom(table, n) ==
    IF n > Len(ERRORS_items)
    THEN table
    ELSE MergeFrom(MergeOne(table, ERRORS_items[n]), n + 1)

\* initialize(b) run to its end by one caller while no other call is in progress
initialize_run(b) ==
    IF lib # None
    THEN [lib |-> lib, ffi |-> ffi, table |-> CU_ERRORS, nLoad |-> nLoad,
          raised |-> FALSE]
    ELSE IF FirstLoadable(b) = None
         THEN [lib |-> None, ffi |-> None, table |-> CU_ERRORS, nLoad |-> nLoad,
               raised |-> TRUE]
         ELSE [lib |-> FirstLoadable(b), ffi |-> "FFI",
               table |-> MergeFrom(CU_ERRORS, 1), nLoad |-> nLoad + 1,
               raised |-> FALSE]

\* __init__ keeping the binding and the output slot's value before testing err
init_finish_binds_early(err, h, L, table) ==
    IF err # CURAND_STATUS_SUCCESS
    THEN [ctor |-> CU_error(table, "curandCreateGenerator", err),
          self_lib |-> L, self_handle |-> h]
    ELSE [ctor |-> Constructed, self_lib |-> L, self_handle |-> h]

\* __init__ after the create call returned err and wrote h to the output slot:
\* if err: self._handle = None; raise CU.error(...)  else keep lib and the handle
init_finish(err, h, L, table) ==
    IF err # CURAND_STATUS_SUCCESS
    THEN [ctor |-> CU_error(table, "curandCreateGenerator", err),
          self_lib |-> None, self_handle |-> NoHandle]
    ELSE [ctor |-> Constructed, self_lib |-> L, self_handle |-> h]

\* CURAND.__init__(context, rng_type); handle = ffi.new(...) is zero until a
\* successful create call writes the new generator's handle h to it
\* (called with a context that has not been released, while no call of
\* initialize is in progress on another thread)
CURAND_init(g, rng_type) ==
    /\ ctor[g].type = "none"
    /\ ctx_handle # NoHandle
    /\ lock = 0
    /\ LET R == initialize_run(DefaultBackends)
           added == Event("_add_ref", 0, NoHandle, 0, FALSE)
       IN  /\ lib' = R.lib
           /\ ffi' = R.ffi
           /\ CU_ERRORS' = R.table
           /\ nLoad' = R.nLoad
           /\ cuffi_ready' = TRUE
           /\ refs' = [refs EXCEPT ![g] = @ + 1]
           /\ IF R.raised
              THEN /\ ctor' = [ctor EXCEPT ![g] = LoadError]
                   /\ trace' = [trace EXCEPT ![g] = << added >>]
                   /\ UNCHANGED << self_lib, self_handle, native_gens >>
              ELSE \E err \in StatusInputs, h \in Handles :
                   LET F == init_finish(err, h, R.lib, R.table)
                       ok == err = CURAND_STATUS_SUCCESS
                       inside == context_enter(ctx_active)
                   IN  /\ IF ok THEN native_gens[h] = 0 ELSE h = 0
                       /\ ctor' = [ctor EXCEPT ![g] = F.ctor]
                       /\ self_lib' = [self_lib EXCEPT ![g] = F.self_lib]
                       /\ self_handle' = [self_handle EXCEPT ![g] = F.self_handle]
                       /\ native_gens' =
                              IF ok THEN [native_gens EXCEPT ![h] = g] ELSE native_gens
                       /\ trace' = [trace EXCEPT ![g] =
                              << added,
                                 Event("curandCreateGenerator", rng_type,
                                       IF ok THEN h ELSE NoHandle, err, inside) >>]
    /\ UNCHANGED << prior, loadable, lock, pc, backends, i, result >>
    /\ UNCHANGED << deleted, raised, nRelease, ctx_handle, ctx_active >>

\* the handle property
CURAND_handle(g) == self_handle[g]

\* __int__
CURAND_int(g) == CURAND_handle(g)

\* _release without the test  self.handle is not None
release_no_handle_test(g, status) ==
    IF self_lib[g] # None
    THEN [called |-> TRUE, self_handle |-> NoHandle, raised |-> "none"]
    ELSE [called |-> FALSE, self_handle |-> self_handle[g], raised |-> "none"]

\* _release without  self._handle = None
release_keeps_handle(g, status) ==
    IF self_lib[g] # None /\ CURAND_handle(g) # NoHandle
    THEN [called |-> TRUE, self_handle |-> self_handle[g], raised |-> "none"]
    ELSE [called |-> FALSE, self_handle |-> self_handle[g], raised |-> "none"]

\* _release testing the status of the destroy call as __init__ tests create's
release_raises(g, status) ==
    IF self_lib[g] # None /\ CURAND_handle(g) # NoHandle
    THEN IF status # CURAND_STATUS_SUCCESS
         THEN [called |-> TRUE, self_handle |-> self_handle[g], raised |-> "CU.error"]
         ELSE [called |-> TRUE, self_handle |-> NoHandle, raised |-> "none"]
    ELSE [called |-> FALSE, self_handle |-> self_handle[g], raised |-> "none"]

\* _release: whether curandDestroyGenerator is called, the handle afterwards and
\* what is raised when the call returns status (no call: no status is looked at)
release(g, status) ==
    IF self_lib[g] # None /\ CURAND_handle(g) # NoHandle
    THEN [called |-> TRUE, self_handle |-> NoHandle, raised |-> "none"]
    ELSE [called |-> FALSE, self_handle |-> self_handle[g], raised |-> "none"]

\* the native call _release makes, if any: issued in the caller's ambient context
release_calls(g, status) ==
    IF release(g, status).called
    THEN << Event("curandDestroyGenerator", CURAND_handle(g), NoHandle, status,
                  ctx_active) >>
    ELSE << >>

\* the library's generators after _release: a destroy that succeeds frees one
release_native(g, status) ==
    IF release(g, status).called /\ status = CURAND_STATUS_SUCCESS
    THEN [native_gens EXCEPT ![CURAND_handle(g)] = 0]
    ELSE native_gens

\* an explicit call of CURAND._release()
CURAND_release(g) ==
    /\ ctor[g].type # "none"
    /\ ~deleted[g]
    /\ nRelease' = [nRelease EXCEPT ![g] = IF @ = 0 THEN 1 ELSE 2]
    /\ \E status \in StatusInputs :
          /\ ~release(g, status).called => status = CURAND_STATUS_SUCCESS
          /\ self_handle' = [self_handle EXCEPT ![g] = release(g, status).self_handle]
          /\ raised' = [raised EXCEPT ![g] = release(g, status).raised]
          /\ trace' = [trace EXCEPT ![g] = @ \o release_calls(g, status)]
          /\ native_gens' = release_native(g, status)
    /\ UNCHANGED << ctor, self_lib, deleted, refs, ctx_handle, ctx_active >>
    /\ UNCHANGED loaderVars

\* __del__ without the test of the context's handle
del_check_skipped(g) == FALSE

\* __del__: if self.context.handle is None: raise SystemError
del_check(g) == ctx_handle = NoHandle

\* CURAND.__del__(), the end of the object's life
CURAND_del(g) ==
    /\ ctor[g].type # "none"
    /\ ~deleted[g]
    /\ deleted' = [deleted EXCEPT ![g] = TRUE]
    /\ IF del_check(g)
       THEN /\ raised' = [raised EXCEPT ![g] = "SystemError"]
            /\ UNCHANGED << self_handle, trace, native_gens, refs >>
       ELSE \E status \in StatusInputs :
            LET R == release(g, status)
                done == R.raised = "none"
            IN  /\ ~R.called => status = CURAND_STATUS_SUCCESS
                /\ self_handle' = [self_handle EXCEPT ![g] = R.self_handle]
                /\ raised' = [raised EXCEPT ![g] = R.raised]
                /\ native_gens' = release_native(g, status)
                /\ refs' = [refs EXCEPT ![g] = IF done THEN @ - 1 ELSE @]
                /\ trace' = [trace EXCEPT ![g] =
                       @ \o release_calls(g, status) \o
                       (IF done
                        THEN << Event("_del_ref", 0, NoHandle, 0, FALSE) >>
                        ELSE << >>)]
    /\ UNCHANGED << ctor, self_lib, nRelease, ctx_handle, ctx_active >>
    /\ UNCHANGED loaderVars

\* the caller enters the context:  with context:
context_push ==
    /\ ctx_handle # NoHandle
    /\ ~ctx_active
    /\ ctx_active' = context_enter(ctx_active)
    /\ UNCHANGED << ctor, self_lib, self_handle, deleted, raised, nRelease, trace,
                    refs, ctx_handle, native_gens >>
    /\ UNCHANGED loaderVars

\* the caller leaves the context
context_pop ==
    /\ ctx_active
    /\ ctx_active' = FALSE
    /\ UNCHANGED << ctor, self_lib, self_handle, deleted, raised, nRelease, trace,
                    refs, ctx_handle, native_gens >>
    /\ UNCHANGED loaderVars

\* the context releases its own handle, whatever still refers to it
context_release ==
    /\ ctx_handle # NoHandle
    /\ ctx_handle' = NoHandle
    /\ UNCHANGED << ctor, self_lib, self_handle, deleted, raised, nRelease, trace,
                    refs, ctx_active, native_gens >>
    /\ UNCHANGED loaderVars

\* the process before any CURAND object exists: nothing loaded, CU.ERRORS holding
\* the other subsystems' descriptions, the cuRAND library installed or not
InitCURAND ==
    /\ InitGen
    /\ lib = None
    /\ ffi = None
    /\ CU_ERRORS = (OtherCode :> OtherText)
    /\ prior = CU_ERRORS
    /\ loadable \in { {}, LibNames }
    /\ cuffi_ready = FALSE
    /\ lock = 0
    /\ pc = [t \in Threads |-> "idle"]
    /\ backends = [t \in Threads |-> << >>]
    /\ i = [t \in Threads |-> 0]
    /\ result = [t \in Threads |-> "none"]
    /\ nLoad = 0

NextGen ==
    \/ \E g \in Gens, r \in RngInputs : CURAND_init(g, r)
    \/ \E g \in Gens : CURAND_release(g)
    \/ \E g \in Gens : CURAND_del(g)
    \/ context_push
    \/ context_pop
    \/ context_release

SpecGen == InitCURAND /\ [][NextGen]_vars

(* ------------------------------- claims -------------------------------- *)

\* thread t creates an FFI instance and parses the definitions in this step
ParseStep(t) == pc[t] = "parse" /\ pc'[t] = "dlopen"

\* thread t calls dlopen in this step
OpenStep(t) ==
    /\ pc[t] = "dlopen"
    /\ i[t] <= Len(backends[t])
    /\ (i'[t] # i[t] \/ pc'[t] # pc[t])

\* C1: with cuffi.lock guarding _initialize, lib is assigned at most once, and
\* once lib is set no step of any thread parses the definitions, calls dlopen
\* or assigns lib or ffi again.
C1_OneTimeLoad ==
    [][ /\ nLoad' <= 1
        /\ lib # None =>
              /\ lib' = lib
              /\ ffi' = ffi
              /\ nLoad' = nLoad
              /\ \A t \in Threads : ~ParseStep(t) /\ ~OpenStep(t) ]_vars

\* C1 witness: after the one load, a thread that waited for the lock has passed
\* _initialize's own test without loading, and another call has returned.
C1_Witness ==
    \E t, u \in Threads :
        /\ t # u
        /\ nLoad = 1
        /\ pc[t] = "unlock"
        /\ i[t] = 0
        /\ result[u] = "ok"

\* C2: a call whose candidates cannot be loaded reaches the raise of OSError
\* with lib and ffi unset and CU.ERRORS as it was before; only a call with a
\* loadable candidate loads; and every call that returns normally, also one
\* made after a failed one, leaves lib set.
C2_FailedLoadLeavesUnset ==
    \A t \in Threads :
        /\ pc[t] = "raise" =>
              /\ \A n \in 1 .. Len(backends[t]) : backends[t][n] \notin loadable
              /\ lib = None
              /\ ffi = None
              /\ nLoad = 0
              /\ CU_ERRORS = prior
        /\ pc[t] = "merge" =>
              \E n \in 1 .. Len(backends[t]) : backends[t][n] = lib /\ lib \in loadable
        /\ result[t] = "ok" => lib # None /\ ffi # None

\* C2 witness: one thread's call has failed with OSError and a later call, of
\* another thread, has loaded the library and returned.
C2_Witness ==
    \E t, u \in Threads :
        /\ result[t] = "OSError"
        /\ result[u] = "ok"
        /\ lib # None
        /\ nLoad = 1

\* the destroy calls object g has made
Destroys(g) ==
    { k \in DOMAIN trace[g] : trace[g][k].ev = "curandDestroyGenerator" }

\* the create calls object g has made
Creates(g) ==
    { k \in DOMAIN trace[g] : trace[g][k].ev = "curandCreateGenerator" }

\* _release has run on g, by an explicit call or inside __del__
Released(g) == nRelease[g] >= 1 \/ (deleted[g] /\ raised[g] # "SystemError")

\* C3: over any sequence of _release and __del__ calls an object makes at most
\* one destroy call; once _release has run on a constructed object that one
\* call was made, on the handle its create call returned, and the handle is
\* unset; _release never raises.
C3_ReleaseIdempotent ==
    \A g \in Gens :
        /\ Cardinality(Destroys(g)) <= 1
        /\ raised[g] = "none" \/ (deleted[g] /\ raised[g] = "SystemError")
        /\ (ctor[g].type = "ok" /\ Released(g)) =>
              /\ self_handle[g] = NoHandle
              /\ \E k \in Destroys(g), c \in Creates(g) :
                     /\ c < k
                     /\ trace[g][c].out \in Handles
                     /\ trace[g][k].arg = trace[g][c].out

\* C3 witness: a constructed object released twice explicitly and then ended.
C3_Witness ==
    \E g \in Gens :
        /\ ctor[g].type = "ok"
        /\ nRelease[g] = 2
        /\ deleted[g]
        /\ raised[g] = "none"
        /\ Cardinality(Destroys(g)) = 1

\* C4: __del__ with the context's handle unset raises SystemError and changes
\* nothing else: no native call, the handle as it was, no deregistration; with
\* the context's handle set it raises nothing, releases (the destroy call, if
\* the object holds a handle, comes first) and then deregisters exactly once.
C4_DelChecksContextFirst ==
    [][ \A g \in Gens :
          (~deleted[g] /\ deleted'[g]) =>
             IF ctx_handle = NoHandle
             THEN /\ raised'[g] = "SystemError"
                  /\ trace'[g] = trace[g]
                  /\ self_handle'[g] = self_handle[g]
                  /\ refs'[g] = refs[g]
                  /\ native_gens' = native_gens
             ELSE LET old == Len(trace[g])
                      new == SubSeq(trace'[g], old + 1, Len(trace'[g]))
                      live == self_lib[g] # None /\ self_handle[g] \in Handles
                  IN  /\ raised'[g] = "none"
                      /\ self_handle'[g] \notin Handles
                      /\ refs'[g] = refs[g] - 1
                      /\ SubSeq(trace'[g], 1, old) = trace[g]
                      /\ Len(new) = (IF live THEN 2 ELSE 1)
                      /\ new[Len(new)].ev = "_del_ref"
                      /\ live => /\ new[1].ev = "curandDestroyGenerator"
                                 /\ new[1].arg = self_handle[g] ]_vars

\* C4 witness: an object that still held its handle was ended after the context
\* had released its own: SystemError, the handle kept, still registered.
C4_Witness ==
    \E g \in Gens :
        /\ deleted[g]
        /\ raised[g] = "SystemError"
        /\ self_handle[g] \in Handles
        /\ refs[g] = 1
        /\ Destroys(g) = {}

\* C5: a create call that returns a non-zero status makes the constructor raise
\* CU.error naming curandCreateGenerator with that status, leaves the handle
\* unset and no binding reference, and the object never makes a destroy call.
C5_FailedCreate ==
    \A g \in Gens :
        /\ \A c \in Creates(g) :
              trace[g][c].status # CURAND_STATUS_SUCCESS => ctor[g].type = "CU.error"
        /\ ctor[g].type = "CU.error" =>
              /\ ctor[g].op = "curandCreateGenerator"
              /\ \E c \in Creates(g) :
                     /\ trace[g][c].status = ctor[g].code
                     /\ trace[g][c].status # CURAND_STATUS_SUCCESS
              /\ self_handle[g] = NoHandle
              /\ self_lib[g] = None
              /\ Destroys(g) = {}

\* C5 witness: an object whose create call failed was released and then ended.
C5_Witness ==
    \E g \in Gens :
        /\ ctor[g].type = "CU.error"
        /\ ctor[g].code = CURAND_STATUS_ALLOCATION_FAILED
        /\ nRelease[g] >= 1
        /\ deleted[g]
        /\ raised[g] = "none"

\* C6: every native call an object makes, create and destroy, is made while its
\* context is the active one.
C6_NativeCallsInsideContext ==
    \A g \in Gens :
        \A k \in Creates(g) \cup Destroys(g) : trace[g][k].active

\* how many times s occurs in t
Occurrences(s, t) ==
    Cardinality({ p \in 1 .. (Len(t) - Len(s) + 1) : SubSeq(t, p, p + Len(s) - 1) = s })

\* the load has succeeded and its merge loop has run to its end
MergeDone == nLoad >= 1 /\ \A t \in Threads : pc[t] # "merge"

\* C7: after a successful load, a code absent before maps to the cuRAND
\* description alone; for a code present before, the prior text is kept as a
\* prefix and " | " and the description are appended or nothing is; and the
\* description never occurs twice in the entry.
C7_MergeNeverDuplicates ==
    MergeDone =>
        \A c \in DOMAIN ERRORS :
            /\ c \in DOMAIN CU_ERRORS
            /\ c \notin DOMAIN prior => CU_ERRORS[c] = ERRORS[c]
            /\ c \in DOMAIN prior =>
                  CU_ERRORS[c] \in { prior[c], prior[c] \o " | " \o ERRORS[c] }
            /\ Occurrences(ERRORS[c], CU_ERRORS[c]) <= 1

C9_DestroyStatusSwallowed ==
    \A g \in Gens :
        (\E k \in Destroys(g) : trace[g][k].status # CURAND_STATUS_SUCCESS) =>
            /\ self_handle[g] = NoHandle
            /\ raised[g] = "none" \/ (deleted[g] /\ raised[g] = "SystemError")

\* C9 witness: an explicit _release whose destroy call failed has returned.
C9_Witness ==
    \E g \in Gens :
        /\ nRelease[g] = 1
        /\ ~deleted[g]
        /\ raised[g] = "none"
        /\ self_handle[g] = NoHandle
        /\ \E k \in Destroys(g) : trace[g][k].status = CURAND_STATUS_ALLOCATION_FAILED

\* C10: whenever a call of initialize has returned normally, every cuRAND status
\* code is a key of CU.ERRORS.
C10_ReturnImpliesMerged ==
    \A t \in Threads :
        result[t] = "ok" => \A c \in DOMAIN ERRORS : c \in DOMAIN CU_ERRORS

=============================================================================
